---- MODULE Spec2Model ----
(***************************************************************************)
(* Model of the HttpStreamingTranscription component of                    *)
(* src/web/app/page.tsx (lines 491-685): the recording session, its        *)
(* periodic timer, the overlapping streaming requests and the per-read     *)
(* line decoder that writes the transcription text and the error field;    *)
(* and of the one-shot transcribeAudio of the Home component (lines        *)
(* 775-891).                                                               *)
(*                                                                         *)
(* JavaScript runs every handler to completion, so each handler (and each  *)
(* continuation of an async function after an await) is one action.        *)
(***************************************************************************)
EXTENDS Naturals, Sequences, FiniteSets

(***************************************************************************)
(* Bounds of the model.                                                    *)
(***************************************************************************)
\* startRecording invocations in one behaviour
MaxStarts == 2
\* periodic (timer-issued) requests in one behaviour
MaxPeriodic == 2
\* audio fragments delivered by the recorders in one behaviour
MaxFragments == 2
\* pieces of a response body in the decoder specification
MaxBody == 4
\* startRecording invocations of the Home component in one behaviour
MaxHomeStarts == 2
\* streams whose tracks end by themselves in one behaviour
MaxEnded == 1

\* handler runs (clicks, callbacks, continuations after an await) in one
\* behaviour
MaxSteps == 11

(***************************************************************************)
(* Values of the JavaScript state.                                         *)
(***************************************************************************)
NULL == "<null>"
UNDEFINED == "<undefined>"
JFALSE == "<false>"
ZERO == "<0>"
\* "no such thing" in the history variables
NONE == "<none>"

\* messages of the Errors the handlers catch
FetchRejected == "Failed to fetch"
HttpNotOk == "HTTP error! status: 500"
BodyNull == "Cannot read properties of null (reading 'getReader')"
ReadRejected == "network error"
DeviceFailed == "Permission denied"

(***************************************************************************)
(* The response body.  A body is a sequence of tokens; each token is a     *)
(* piece of the text the service writes, so that a read can end between    *)
(* two tokens of one JSON line.  TextDecoder.decode(value, {stream: true}) *)
(* (line 551) hands every complete character to the caller in order, and   *)
(* a token is a run of complete characters.                                *)
(***************************************************************************)
NL == "\n"
WS == " "
OB == "{"
CB == "}"
SComplete == "\"status\":\"complete\""
SError == "\"status\":\"error\""
SProcessing == "\"status\":\"processing\""
RText1 == ",\"result\":{\"text\":\"t1\"}"
RText2 == ",\"result\":{\"text\":\"t2\"}"
REmptyText == ",\"result\":{\"text\":\"\"}"
RNoText == ",\"result\":{}"
RNull == ",\"result\":null"
MsgE1 == ",\"message\":\"e1\""
MsgNull == ",\"message\":null"
MsgEmpty == ",\"message\":\"\""
JNull == "null"
Junk == "not json"

StatusTokens == {SComplete, SError, SProcessing}
FieldTokens == {RText1, RText2, REmptyText, RNoText, RNull, MsgE1, MsgNull, MsgEmpty}

\* String.prototype.split("\n") on a token sequence: the pieces between the
\* newline tokens, the (possibly empty) piece after the last one included.
RECURSIVE SplitFrom(_, _, _, _)
SplitFrom(chunk, i, cur, acc) ==
  IF i > Len(chunk) THEN Append(acc, cur)
  ELSE IF chunk[i] = NL THEN SplitFrom(chunk, i + 1, <<>>, Append(acc, cur))
  ELSE SplitFrom(chunk, i + 1, Append(cur, chunk[i]), acc)

SplitLines(chunk) == SplitFrom(chunk, 1, <<>>, <<>>)

\* line.trim() is truthy: the line holds something other than white space
IsNotBlank(line) == \E i \in 1..Len(line) : line[i] # WS

\* chunk.split("\n").filter((line) => line.trim())
Lines(chunk) == SelectSeq(SplitLines(chunk), IsNotBlank)

NoWS(line) == SelectSeq(line, LAMBDA t : t # WS)

\* The object a line denotes: the members of a JSON object, a later member
\* replacing an earlier one of the same key.
RECURSIVE Members(_, _, _)
Members(toks, i, obj) ==
  IF i > Len(toks) THEN obj
  ELSE LET t == toks[i]
           o == IF t = SComplete THEN [obj EXCEPT !.status = "complete"]
                ELSE IF t = SError THEN [obj EXCEPT !.status = "error"]
                ELSE IF t = SProcessing THEN [obj EXCEPT !.status = "processing"]
                ELSE IF t = RText1 THEN [obj EXCEPT !.result = "object", !.text = "t1"]
                ELSE IF t = RText2 THEN [obj EXCEPT !.result = "object", !.text = "t2"]
                ELSE IF t = REmptyText THEN [obj EXCEPT !.result = "object", !.text = ""]
                ELSE IF t = RNoText THEN [obj EXCEPT !.result = "object", !.text = UNDEFINED]
                ELSE IF t = RNull THEN [obj EXCEPT !.result = NULL, !.text = UNDEFINED]
                ELSE IF t = MsgE1 THEN [obj EXCEPT !.message = "e1"]
                ELSE IF t = MsgNull THEN [obj EXCEPT !.message = NULL]
                ELSE IF t = MsgEmpty THEN [obj EXCEPT !.message = ""]
                ELSE obj
       IN Members(toks, i + 1, o)

EmptyObject ==
  [kind |-> "object", status |-> UNDEFINED, result |-> UNDEFINED,
   text |-> UNDEFINED, message |-> UNDEFINED]

\* JSON.parse(line): white space between tokens is allowed; the text must be
\* one JSON value.  kind "throws" stands for the SyntaxError.
JSONParse(line) ==
  LET toks == NoWS(line)
      n == Len(toks)
  IN IF n = 1 /\ toks[1] = JNull THEN [EmptyObject EXCEPT !.kind = "null"]
     ELSE IF n = 2 /\ toks[1] = OB /\ toks[2] = CB THEN EmptyObject
     ELSE IF /\ n >= 3
             /\ toks[1] = OB
             /\ toks[n] = CB
             /\ toks[2] \in StatusTokens
             /\ \A i \in 3..(n - 1) : toks[i] \in FieldTokens
          THEN Members(toks, 2, EmptyObject)
     ELSE [EmptyObject EXCEPT !.kind = "throws"]

\* The line reaches the status dispatch: JSON.parse returned and data.status
\* can be read (reading a property of null throws a TypeError, caught by the
\* same catch as the SyntaxError).
Decodes(line) == JSONParse(line).kind = "object"

(***************************************************************************)
(* The status dispatch of processAudioChunks (lines 555-569).  An outcome  *)
(* is the pair of React states the loop writes, with the list of the       *)
(* StreamEvents it applied to them.                                        *)
(***************************************************************************)
Outcome(text, err) == [transcription |-> text, error |-> err, applied |-> <<>>]

Truthy(v) == v \notin {UNDEFINED, NULL, "", JFALSE, ZERO}

\* An error event that also clears the text.
OnErrorEventClearsText(data, st) ==
  [st |-> [st EXCEPT !.error = data.message,
                     !.transcription = "",
                     !.applied = Append(@, [status |-> "error", value |-> data.message])],
   brk |-> TRUE]

\* setError(data.message); break
OnErrorEvent(data, st) ==
  [st |-> [st EXCEPT !.error = data.message,
                     !.applied = Append(@, [status |-> "error", value |-> data.message])],
   brk |-> TRUE]

\* A complete event that also clears the error field.
OnCompleteEventClearsError(data, st) ==
  LET text == IF Truthy(data.text) THEN data.text ELSE ""
  IN [st |-> [st EXCEPT !.transcription = text,
                        !.error = NULL,
                        !.applied = Append(@, [status |-> "complete", value |-> text])],
      brk |-> FALSE]

\* A complete event that keeps the text when its result has none.
OnCompleteEventKeepsText(data, st) ==
  LET text == IF Truthy(data.text) THEN data.text ELSE st.transcription
  IN [st |-> [st EXCEPT !.transcription = text,
                        !.applied = Append(@, [status |-> "complete", value |-> text])],
      brk |-> FALSE]

\* setTranscription(data.result.text || "")
OnCompleteEvent(data, st) ==
  LET text == IF Truthy(data.text) THEN data.text ELSE ""
  IN [st |-> [st EXCEPT !.transcription = text,
                        !.applied = Append(@, [status |-> "complete", value |-> text])],
      brk |-> FALSE]

\* A catch that gives up on the rest of the read.
OnParseErrorAborts(line, st) == [st |-> st, brk |-> TRUE]

\* catch (e) { console.error("Error parsing JSON:", e, line) }
OnParseError(line, st) == [st |-> st, brk |-> FALSE]

\* A dispatch that applies the result of any event that is not an error.
HandleLineAnyResult(line, st) ==
  LET data == JSONParse(line)
  IN IF data.kind # "object" THEN OnParseError(line, st)
     ELSE IF data.status = "error" THEN OnErrorEvent(data, st)
     ELSE IF Truthy(data.result) THEN OnCompleteEvent(data, st)
     ELSE [st |-> st, brk |-> FALSE]

\* the body of the for loop: try { JSON.parse; dispatch } catch { log }
HandleLine(line, st) ==
  LET data == JSONParse(line)
  IN IF data.kind # "object" THEN OnParseError(line, st)
     ELSE IF data.status = "error" THEN OnErrorEvent(data, st)
     ELSE IF data.status = "complete" /\ Truthy(data.result) THEN OnCompleteEvent(data, st)
     ELSE [st |-> st, brk |-> FALSE]

\* for (const line of lines) { ... }: break leaves this loop only
RECURSIVE ForLines(_, _, _)
ForLines(lines, i, st) ==
  IF i > Len(lines) THEN st
  ELSE LET r == HandleLine(lines[i], st)
       IN IF r.brk THEN r.st ELSE ForLines(lines, i + 1, r.st)

\* one iteration of the read loop with done = false
ProcessChunk(chunk, st) == ForLines(Lines(chunk), 1, st)

\* catch (err) of processAudioChunks: isRecording is the value of the render
\* whose closure runs
CatchError(closureIsRecording, message, err) ==
  IF ~closureIsRecording THEN message ELSE err

(***************************************************************************)
(* State.                                                                  *)
(***************************************************************************)
VARIABLES
  isRecording,            \* useState(false), line 497
  isStreaming,            \* useState(false), line 498
  transcription,          \* useState(""), line 499
  error,                  \* useState<string | null>(null), line 500
  status,                 \* useState("idle"), line 501
  audioBlob,              \* useState<Blob | null>(null), line 502
  mediaRecorderRef,       \* id of the recorder in the ref, 0 for null
  audioChunksRef,         \* the fragments pushed since the last reset
  processingIntervalRef,  \* id of the interval in the ref, 0 for null
  calls,                  \* the startRecording invocations, in call order
  recorders,              \* the MediaRecorder objects created, by call
  intervals,              \* the setInterval timers still armed, by call
  requests,               \* the processAudioChunks runs awaiting the network
  idleTimers,             \* pending setTimeout(() => setStatus("idle"), 2000), by
                          \* the recorder their stopRecording stopped
  fragments,              \* fragments delivered so far
  issued,                 \* requests issued so far, periodic and final
  textOwner,              \* history: the request whose event set transcription
  finalApplied,           \* history: the final request whose complete was applied
  outlived,               \* history: the timers left armed by a stopRecording
  last,                   \* history: the handler that ran last
  issuedAtStart,          \* history: requests issued when startRecording last ran
  mounted,                \* the component is mounted (its cleanup effect has not run)
  steps,                  \* handler runs so far
  decBody,                \* decoder specification: the pieces of the body
  decPos,                 \* decoder specification: pieces read so far
  decOut,                 \* decoder specification: outcome of the reads so far
  decClean,               \* decoder specification: outcome of the decodable lines
  homeFile,               \* Home: useState<File | null>(null) holds a file, line 783
  homeIsRecording,        \* Home: useState(false), line 787
  homeRecordedBlob,       \* Home: useState<Blob | null>(null) holds a blob, line 788
  homeCalls,              \* Home: the startRecording invocations, in call order
  homeRecorders,          \* Home: the MediaRecorder objects created, by call
  homeRecorderRef,        \* Home: id of the recorder in mediaRecorderRef, 0 for null
  isTranscribing,         \* Home: useState(false), line 794
  homeTranscription,      \* Home: useState<any>(null), line 795
  homeError,              \* Home: useState<string | null>(null), line 796
  homeCall,               \* Home: where the transcribeAudio run is
  homeTouched,            \* history: another handler wrote the error during the run
  homeLast                \* history: the Home handler that ran last

sessionVars ==
  <<isRecording, isStreaming, transcription, error, status, audioBlob,
    mediaRecorderRef, audioChunksRef, processingIntervalRef, calls, recorders,
    intervals, requests, idleTimers, fragments, issued, textOwner,
    finalApplied, outlived, last, issuedAtStart, mounted, steps>>

decVars == <<decBody, decPos, decOut, decClean>>

\* the state of the component and of the objects it created, without the
\* history variables
codeVars ==
  <<isRecording, isStreaming, transcription, error, status, audioBlob,
    mediaRecorderRef, audioChunksRef, processingIntervalRef, calls, recorders,
    intervals, requests, idleTimers, fragments, issued>>

homeVars ==
  <<homeFile, homeIsRecording, homeRecordedBlob, homeCalls, homeRecorders,
    homeRecorderRef, isTranscribing, homeTranscription, homeError, homeCall,
    homeTouched, homeLast>>

vars == <<sessionVars, decVars, homeVars>>

NoOwner == [seq |-> 0, session |-> 0]

\* new Blob(parts, { type: "audio/wav" }) and the null of useState
Blob(parts) == [isNull |-> FALSE, parts |-> parts]

NoBlob == [isNull |-> TRUE, parts |-> <<>>]

Event(op, final, msg) == [op |-> op, final |-> final, msg |-> msg, wrote |-> FALSE]

\* a read: wrote tells whether it called setTranscription
ReadEvent(final, msg, wrote) == [op |-> "read", final |-> final, msg |-> msg, wrote |-> wrote]

\* A state setter of a component that is unmounted does nothing.
SetState(new, old) == IF mounted THEN new ELSE old

\* A handler run that counts towards MaxSteps.
Counted == steps < MaxSteps /\ steps' = steps + 1

SessionInit ==
  /\ isRecording = FALSE
  /\ isStreaming = FALSE
  /\ transcription = ""
  /\ error = NULL
  /\ status = "idle"
  /\ audioBlob = NoBlob
  /\ mediaRecorderRef = 0
  /\ audioChunksRef = <<>>
  /\ processingIntervalRef = 0
  /\ calls = <<>>
  /\ recorders = <<>>
  /\ intervals = {}
  /\ requests = {}
  /\ idleTimers = {}
  /\ fragments = 0
  /\ issued = [periodic |-> 0, final |-> 0]
  /\ textOwner = NoOwner
  /\ finalApplied = 0
  /\ outlived = {}
  /\ last = Event("init", FALSE, NONE)
  /\ issuedAtStart = 0
  /\ mounted = TRUE
  /\ steps = 0

DecIdle ==
  /\ decBody = <<>>
  /\ decPos = 0
  /\ decOut = Outcome("", NULL)
  /\ decClean = Outcome("", NULL)

HomeEvent(op, value) == [op |-> op, value |-> value]

\* Home after its first render (lines 783-796)
HomeIdle ==
  /\ homeFile = FALSE
  /\ homeIsRecording = FALSE
  /\ homeRecordedBlob = FALSE
  /\ homeCalls = <<>>
  /\ homeRecorders = <<>>
  /\ homeRecorderRef = 0
  /\ isTranscribing = FALSE
  /\ homeTranscription = NULL
  /\ homeError = NULL
  /\ homeCall = "none"
  /\ homeTouched = FALSE
  /\ homeLast = HomeEvent("init", NONE)

Init == SessionInit /\ DecIdle /\ HomeIdle

(***************************************************************************)
(* startRecording (lines 583-631).                                         *)
(***************************************************************************)
\* The Start button is rendered (lines 707-724).
StartButtonShown == mounted /\ ~isRecording /\ status # "processing"

\* The Stop button is rendered (lines 707-710).
StopButtonShown == mounted /\ isRecording

\* Lines 585-591: the resets, up to the await of getUserMedia.  The call
\* keeps the processAudioChunks of the render it was made in.
StartRecording ==
  /\ Counted
  /\ StartButtonShown
  /\ Len(calls) < MaxStarts
  /\ error' = NULL
  /\ transcription' = ""
  /\ audioChunksRef' = <<>>
  /\ audioBlob' = NoBlob
  /\ isStreaming' = TRUE
  /\ calls' = Append(calls, [closureIsRecording |-> isRecording, device |-> "pending"])
  /\ recorders' = Append(recorders, [state |-> "none", tracks |-> "none"])
  /\ textOwner' = NoOwner
  /\ finalApplied' = 0
  /\ last' = Event("start", FALSE, NONE)
  /\ issuedAtStart' = issued.periodic + issued.final
  /\ UNCHANGED <<isRecording, status, mediaRecorderRef, processingIntervalRef,
                 intervals, requests, idleTimers, fragments, issued, outlived>>
  /\ UNCHANGED <<mounted, decVars, homeVars>>

\* Lines 592-623: getUserMedia resolved.
DeviceGranted(c) ==
  /\ Counted
  /\ c \in 1..Len(calls)
  /\ calls[c].device = "pending"
  /\ calls' = [calls EXCEPT ![c].device = "granted"]
  /\ recorders' = [recorders EXCEPT ![c] = [state |-> "recording", tracks |-> "live"]]
  /\ mediaRecorderRef' = c
  /\ isRecording' = SetState(TRUE, isRecording)
  /\ status' = SetState("recording", status)
  /\ intervals' = intervals \cup {c}
  /\ processingIntervalRef' = c
  /\ last' = Event("granted", FALSE, NONE)
  /\ UNCHANGED <<isStreaming, transcription, error, audioBlob, audioChunksRef,
                 requests, idleTimers, fragments, issued, textOwner, finalApplied, outlived>>
  /\ UNCHANGED <<issuedAtStart, mounted, decVars, homeVars>>

\* Lines 624-630: getUserMedia rejected.
DeviceDenied(c) ==
  /\ Counted
  /\ c \in 1..Len(calls)
  /\ calls[c].device = "pending"
  /\ calls' = [calls EXCEPT ![c].device = "denied"]
  /\ error' = SetState(DeviceFailed, error)
  /\ isRecording' = SetState(FALSE, isRecording)
  /\ isStreaming' = SetState(FALSE, isStreaming)
  /\ last' = Event("denied", FALSE, DeviceFailed)
  /\ UNCHANGED <<transcription, status, audioBlob, mediaRecorderRef, audioChunksRef,
                 processingIntervalRef, recorders, intervals, requests, idleTimers,
                 fragments, issued, textOwner, finalApplied, outlived>>
  /\ UNCHANGED <<issuedAtStart, mounted, decVars, homeVars>>

\* mediaRecorder.ondataavailable (lines 595-599): size is event.data.size.
OnDataAvailable(c) ==
  /\ c \in 1..Len(recorders)
  /\ recorders[c].state = "recording"
  /\ \E size \in 0..1 :
       /\ audioChunksRef' = IF size > 0 THEN Append(audioChunksRef, fragments + 1)
                            ELSE audioChunksRef
       /\ fragments' = IF size > 0 THEN fragments + 1 ELSE fragments
       /\ last' = Event("data", FALSE, IF size > 0 THEN "pushed" ELSE "empty")
  /\ UNCHANGED <<isRecording, isStreaming, transcription, error, status, audioBlob,
                 mediaRecorderRef, processingIntervalRef, calls, recorders, intervals,
                 requests, idleTimers, issued, textOwner, finalApplied, outlived>>
  /\ UNCHANGED <<issuedAtStart, mounted, decVars, homeVars>>

\* The dataavailable event of recorder c, every 300 ms while it records
\* (line 616), within the bounds of the model.
DataAvailable(c) ==
  /\ Counted
  /\ fragments < MaxFragments
  /\ OnDataAvailable(c)

(***************************************************************************)
(* processAudioChunks (lines 509-580), up to the await of fetch.           *)
(***************************************************************************)
\* An empty-buffer test that never returns early.
NothingToSendNever(chunks) == FALSE

\* Line 510: audioChunksRef.current.length === 0
NothingToSend(chunks) == Len(chunks) = 0

\* A request that posts the newest fragment instead of all the fragments held.
NewRequestLatestOnly(c, final, chunks) ==
  [seq |-> issued.periodic + issued.final + 1,
   session |-> c,
   final |-> final,
   closureIsRecording |-> calls[c].closureIsRecording,
   payload |-> Blob(IF chunks = <<>> THEN <<>> ELSE <<chunks[Len(chunks)]>>),
   phase |-> "fetch",
   terminal |-> FALSE]

\* Lines 514-531: the Blob of the fragments held now, posted by the closure
\* of call c.  seq is the issue order; terminal is history: a complete or an
\* error event of this request has reached the status dispatch.
NewRequest(c, final, chunks) ==
  [seq |-> issued.periodic + issued.final + 1,
   session |-> c,
   final |-> final,
   closureIsRecording |-> calls[c].closureIsRecording,
   payload |-> Blob(chunks),
   phase |-> "fetch",
   terminal |-> FALSE]

\* A timer callback that returns when a request is still awaited.
IntervalCallbackSkipsWhenBusy(c) ==
  /\ c \in intervals
  /\ IF NothingToSend(audioChunksRef) \/ requests # {}
       THEN /\ last' = Event("tick", FALSE, "returned")
            /\ UNCHANGED <<requests, issued>>
       ELSE /\ requests' = requests \cup {NewRequest(c, FALSE, audioChunksRef)}
            /\ issued' = [issued EXCEPT !.periodic = @ + 1]
            /\ last' = Event("tick", FALSE,
                              IF c \in outlived THEN "issued after stop" ELSE "issued")
  /\ UNCHANGED <<isRecording, isStreaming, transcription, error, status, audioBlob,
                 mediaRecorderRef, audioChunksRef, processingIntervalRef, calls,
                 recorders, intervals, idleTimers, fragments, textOwner, finalApplied, outlived>>
  /\ UNCHANGED <<issuedAtStart, mounted, decVars, homeVars>>

\* The setInterval callback of call c (lines 621-623): processAudioChunks,
\* not awaited.
IntervalCallback(c) ==
  /\ c \in intervals
  /\ IF NothingToSend(audioChunksRef)
       THEN /\ last' = Event("tick", FALSE, "returned")
            /\ UNCHANGED <<requests, issued>>
       ELSE /\ requests' = requests \cup {NewRequest(c, FALSE, audioChunksRef)}
            /\ issued' = [issued EXCEPT !.periodic = @ + 1]
            /\ last' = Event("tick", FALSE,
                              IF c \in outlived THEN "issued after stop" ELSE "issued")
  /\ UNCHANGED <<isRecording, isStreaming, transcription, error, status, audioBlob,
                 mediaRecorderRef, audioChunksRef, processingIntervalRef, calls,
                 recorders, intervals, idleTimers, fragments, textOwner, finalApplied, outlived>>
  /\ UNCHANGED <<issuedAtStart, mounted, decVars, homeVars>>

\* The timer of call c fires, every 1000 ms while it is armed (line 623),
\* within the bounds of the model.
Tick(c) ==
  /\ Counted
  /\ ~NothingToSend(audioChunksRef) => issued.periodic < MaxPeriodic
  /\ IntervalCallback(c)

(***************************************************************************)
(* stopRecording (lines 634-662) and mediaRecorder.onstop (lines 601-614). *)
(***************************************************************************)
\* A test of the ref that does not look at the state of the recorder.
RecorderActiveWhenSet == mediaRecorderRef # 0

\* mediaRecorderRef.current && mediaRecorderRef.current.state !== "inactive"
RecorderActive ==
  /\ mediaRecorderRef # 0
  /\ recorders[mediaRecorderRef].state = "recording"

\* clearInterval(processingIntervalRef.current), lines 649-652
ClearInterval(armed, ref) == IF ref # 0 THEN armed \ {ref} ELSE armed

\* The body of stopRecording (lines 634-662).
StopRecordingBody ==
  /\ IF RecorderActive
       THEN /\ recorders' = [recorders EXCEPT ![mediaRecorderRef] =
                               [state |-> "stopping", tracks |-> "stopped"]]
            /\ intervals' = ClearInterval(intervals, processingIntervalRef)
            /\ processingIntervalRef' = 0
            /\ isRecording' = FALSE
            /\ status' = "processing"
            /\ idleTimers' = idleTimers \cup {mediaRecorderRef}
            /\ outlived' = outlived \cup ClearInterval(intervals, processingIntervalRef)
            /\ last' = Event("stop", FALSE, "stopped")
       ELSE /\ last' = Event("stop", FALSE, "returned")
            /\ UNCHANGED <<recorders, intervals, processingIntervalRef, isRecording,
                           status, idleTimers, outlived>>
  /\ UNCHANGED <<isStreaming, transcription, error, audioBlob, mediaRecorderRef,
                 audioChunksRef, calls, requests, fragments, issued, textOwner,
                 finalApplied>>
  /\ UNCHANGED <<issuedAtStart, mounted, decVars, homeVars>>

\* A click on the Stop button (lines 707-710).
StopRecording ==
  /\ Counted
  /\ StopButtonShown
  /\ StopRecordingBody

\* stopRecording called while its button is not rendered: no session was
\* started, the start failed, or the session was stopped already.
StopRecordingCalled ==
  /\ Counted
  /\ mounted
  /\ ~isRecording
  /\ StopRecordingBody

\* The task MediaRecorder.stop() queues: a last dataavailable with the data
\* gathered since the previous one, then the stop event, whose handler
\* (lines 601-614) runs processAudioChunks and, when that returns at once
\* (no fragment), the finally.
RecorderStopped(c) ==
  /\ Counted
  /\ c \in 1..Len(recorders)
  /\ recorders[c].state = "stopping"
  /\ \E size \in 0..1 :
       LET chunks == IF size > 0 THEN Append(audioChunksRef, fragments + 1)
                     ELSE audioChunksRef
       IN /\ size > 0 => fragments < MaxFragments
          /\ audioChunksRef' = chunks
          /\ fragments' = IF size > 0 THEN fragments + 1 ELSE fragments
          /\ audioBlob' = SetState(Blob(chunks), audioBlob)
          /\ IF NothingToSend(chunks)
               THEN /\ status' = SetState("idle", status)
                    /\ last' = Event("onstop", TRUE, "returned")
                    /\ UNCHANGED <<requests, issued>>
               ELSE /\ requests' = requests \cup {NewRequest(c, TRUE, chunks)}
                    /\ issued' = [issued EXCEPT !.final = @ + 1]
                    /\ last' = Event("onstop", TRUE, "issued")
                    /\ UNCHANGED status
  /\ recorders' = [recorders EXCEPT ![c].state = "inactive"]
  /\ UNCHANGED <<isRecording, isStreaming, transcription, error, mediaRecorderRef,
                 processingIntervalRef, calls, intervals, idleTimers, textOwner,
                 finalApplied, outlived>>
  /\ UNCHANGED <<issuedAtStart, mounted, decVars, homeVars>>

\* The task queued by MediaRecorder.stop() runs before the 2000 ms timer set
\* in the same stopRecording (lines 640, 658-660) can fire; the timer of an
\* earlier stopRecording does not wait for the task of a later stop.
StopTasksRan(c) == recorders[c].state # "stopping"

\* setTimeout(() => setStatus("idle"), 2000), lines 658-660
IdleTimeout(c) ==
  /\ Counted
  /\ c \in idleTimers
  /\ StopTasksRan(c)
  /\ idleTimers' = idleTimers \ {c}
  /\ status' = SetState("idle", status)
  /\ last' = Event("timeout", FALSE, NONE)
  /\ UNCHANGED <<isRecording, isStreaming, transcription, error, audioBlob,
                 mediaRecorderRef, audioChunksRef, processingIntervalRef, calls,
                 recorders, intervals, requests, fragments, issued, textOwner,
                 finalApplied, outlived>>
  /\ UNCHANGED <<issuedAtStart, mounted, decVars, homeVars>>

\* The tracks of the stream of recorder c end (the microphone is unplugged
\* or its permission revoked): the MediaRecorder stops by itself and queues
\* the same task as stop().  No handler of the component runs here.
TracksEnded(c) ==
  /\ Counted
  /\ c \in 1..Len(recorders)
  /\ recorders[c].state = "recording"
  /\ Cardinality({d \in 1..Len(recorders) : recorders[d].tracks = "ended"}) < MaxEnded
  /\ recorders' = [recorders EXCEPT ![c] = [state |-> "stopping", tracks |-> "ended"]]
  /\ last' = Event("ended", FALSE, NONE)
  /\ UNCHANGED <<isRecording, isStreaming, transcription, error, status, audioBlob,
                 mediaRecorderRef, audioChunksRef, processingIntervalRef, calls,
                 intervals, requests, idleTimers, fragments, issued, textOwner,
                 finalApplied, outlived>>
  /\ UNCHANGED <<issuedAtStart, mounted, decVars, homeVars>>

\* The cleanup of the effect of lines 664-685, run when the component is
\* unmounted: the recorder held in the ref is stopped with its tracks, and
\* the interval held in the ref is cleared.
Unmount ==
  /\ Counted
  /\ mounted
  /\ mounted' = FALSE
  /\ recorders' = IF RecorderActive
                     THEN [recorders EXCEPT ![mediaRecorderRef] =
                             [state |-> "stopping", tracks |-> "stopped"]]
                     ELSE recorders
  /\ intervals' = ClearInterval(intervals, processingIntervalRef)
  /\ last' = Event("unmount", FALSE, NONE)
  /\ UNCHANGED <<isRecording, isStreaming, transcription, error, status, audioBlob,
                 mediaRecorderRef, audioChunksRef, processingIntervalRef, calls,
                 requests, idleTimers, fragments, issued, textOwner, finalApplied,
                 outlived>>
  /\ UNCHANGED <<issuedAtStart, decVars, homeVars>>

(***************************************************************************)
(* processAudioChunks (lines 528-580), after the await of fetch.           *)
(***************************************************************************)
\* processAudioChunks returned: the request's run is over, and the finally
\* of onstop (lines 610-613) runs when it was awaited there.
Returns(r) ==
  /\ requests' = requests \ {r}
  /\ status' = IF r.final THEN SetState("idle", status) ELSE status

\* What the try of lines 512-570 can throw after the await the request is at:
\* fetch rejects, resolves with a response that is not ok (lines 533-535) or
\* with one that has no body (line 538); reader.read() rejects (line 543).
FailuresAt(phase) ==
  IF phase = "fetch" THEN {FetchRejected, HttpNotOk, BodyNull} ELSE {ReadRejected}

\* An await of the try rejects or the code after it throws: the catch of
\* lines 571-579 runs and the function returns.
TransportFailure(r) ==
  /\ Counted
  /\ r \in requests
  /\ \E message \in FailuresAt(r.phase) :
       /\ error' = SetState(CatchError(r.closureIsRecording, message, error), error)
       /\ last' = Event("failure", r.final, message)
  /\ Returns(r)
  /\ UNCHANGED <<isRecording, isStreaming, transcription, audioBlob, mediaRecorderRef,
                 audioChunksRef, processingIntervalRef, calls, recorders, intervals,
                 idleTimers, fragments, issued, textOwner, finalApplied, outlived>>
  /\ UNCHANGED <<issuedAtStart, mounted, decVars, homeVars>>

\* fetch resolves with an ok response (lines 537-539)
ResponseOk(r) ==
  /\ Counted
  /\ r \in requests
  /\ r.phase = "fetch"
  /\ requests' = (requests \ {r}) \cup {[r EXCEPT !.phase = "reading"]}
  /\ last' = Event("response", r.final, NONE)
  /\ UNCHANGED <<isRecording, isStreaming, transcription, error, status, audioBlob,
                 mediaRecorderRef, audioChunksRef, processingIntervalRef, calls,
                 recorders, intervals, idleTimers, fragments, issued, textOwner,
                 finalApplied, outlived>>
  /\ UNCHANGED <<issuedAtStart, mounted, decVars, homeVars>>

\* The reads the service and the transport can produce.
LineOf(members) == <<OB>> \o members \o <<CB, NL>>

\* A complete event: with a text, with an empty text, with a result without
\* text, with a null result, without result.
CompleteLines ==
  { LineOf(<<SComplete>> \o result) :
      result \in {<<RText1>>, <<RText2>>, <<REmptyText>>, <<RNoText>>, <<RNull>>, <<>>} }

\* An error event: with a message, with a null or empty message, without one.
ErrorLines ==
  { LineOf(<<SError>> \o message) :
      message \in {<<MsgE1>>, <<MsgNull>>, <<MsgEmpty>>, <<>>} }

\* One event, a complete event followed by an error event, an error event
\* followed by a complete event, a line that does not decode followed by a
\* complete event, and the head of a line cut by the transport.
ReadChunks ==
  CompleteLines \cup ErrorLines \cup {LineOf(<<SProcessing>>)}
    \cup {complete \o failure : complete \in CompleteLines, failure \in ErrorLines}
    \cup { LineOf(<<SError, MsgE1>>) \o LineOf(<<SComplete, RText2>>),
           <<Junk, NL>> \o LineOf(<<SComplete, RText1>>),
           <<OB, SError>> }

\* The lines of a read that reach the status dispatch with the given status.
EventsOf(chunk, statuses) ==
  SelectSeq(Lines(chunk), LAMBDA l : Decodes(l) /\ JSONParse(l).status \in statuses)

\* The message of the first error event of a read.
FirstErrorMessage(chunk) ==
  LET errs == EventsOf(chunk, {"error"})
  IN IF errs = <<>> THEN NONE ELSE JSONParse(errs[1]).message

\* The values the transcription and the error field take.
Texts == {"", "t1", "t2"}
Errors ==
  {NULL, UNDEFINED, "", FetchRejected, HttpNotOk, BodyNull, ReadRejected, DeviceFailed, "e1"}

\* ProcessChunk on every read and every pair of states, computed once.
ReadOutcomes ==
  [chunk \in ReadChunks, text \in Texts, err \in Errors |->
     ProcessChunk(chunk, Outcome(text, err))]

\* What a read carries: a terminal event, and the message of its first error.
ReadFacts ==
  [chunk \in ReadChunks |->
     [terminal |-> EventsOf(chunk, {"complete", "error"}) # <<>>,
      message |-> FirstErrorMessage(chunk)]]

\* What one read does: the text and the error it leaves, whether a complete
\* event wrote the text, whether it carries a terminal event, and the message
\* of its first error event.
ReadEffect(chunk, text, err) ==
  LET st == ReadOutcomes[chunk, text, err]
  IN [transcription |-> st.transcription,
      error |-> st.error,
      wrote |-> \E i \in 1..Len(st.applied) : st.applied[i].status = "complete",
      terminal |-> ReadFacts[chunk].terminal,
      message |-> ReadFacts[chunk].message]

\* The effects of the reads of ReadChunks in every pair of states, computed once.
ReadEffects ==
  [text \in Texts, err \in Errors |->
     {ReadEffect(chunk, text, err) : chunk \in ReadChunks}]

\* One reader.read() with done = false (lines 543-569), delivering a member of
\* ReadChunks.
Read(r) ==
  /\ Counted
  /\ r \in requests
  /\ r.phase = "reading"
  /\ \E effect \in ReadEffects[transcription, error] :
       /\ transcription' = SetState(effect.transcription, transcription)
       /\ error' = SetState(effect.error, error)
       /\ textOwner' = IF effect.wrote /\ mounted
                       THEN [seq |-> r.seq, session |-> r.session]
                       ELSE textOwner
       /\ finalApplied' = IF effect.wrote /\ mounted /\ r.final THEN r.seq
                          ELSE finalApplied
       /\ last' = ReadEvent(r.final, effect.message, effect.wrote)
       /\ requests' = (requests \ {r}) \cup
             {[r EXCEPT !.terminal = @ \/ effect.terminal]}
  /\ UNCHANGED <<isRecording, isStreaming, status, audioBlob, mediaRecorderRef,
                 audioChunksRef, processingIntervalRef, calls, recorders, intervals,
                 idleTimers, fragments, issued, outlived>>
  /\ UNCHANGED <<issuedAtStart, mounted, decVars, homeVars>>

\* reader.read() with done = true (lines 545-548): the loop and the function end.
ReadDone(r) ==
  /\ Counted
  /\ r \in requests
  /\ r.phase = "reading"
  /\ Returns(r)
  /\ last' = Event("done", r.final, IF r.terminal THEN "terminal" ELSE "no terminal")
  /\ UNCHANGED <<isRecording, isStreaming, transcription, error, audioBlob,
                 mediaRecorderRef, audioChunksRef, processingIntervalRef, calls,
                 recorders, intervals, idleTimers, fragments, issued, textOwner,
                 finalApplied, outlived>>
  /\ UNCHANGED <<issuedAtStart, mounted, decVars, homeVars>>

Next ==
  \/ StartRecording
  \/ \E c \in 1..MaxStarts : DeviceGranted(c)
  \/ \E c \in 1..MaxStarts : DeviceDenied(c)
  \/ \E c \in 1..MaxStarts : DataAvailable(c)
  \/ \E c \in 1..MaxStarts : Tick(c)
  \/ StopRecording
  \/ \E c \in 1..MaxStarts : RecorderStopped(c)
  \/ \E c \in 1..MaxStarts : IdleTimeout(c)
  \/ \E c \in 1..MaxStarts : TracksEnded(c)
  \/ Unmount
  \/ \E r \in requests : TransportFailure(r)
  \/ \E r \in requests : ResponseOk(r)
  \/ \E r \in requests : Read(r)
  \/ \E r \in requests : ReadDone(r)

Spec == Init /\ [][Next]_vars

\* The component with a caller that invokes stopRecording whatever the
\* buttons show.
CallNext ==
  \/ Next
  \/ StopRecordingCalled

CallSpec == Init /\ [][CallNext]_vars

\* The task queued by MediaRecorder.stop() runs, and the timer of stopRecording
\* fires once its delay has passed.
LiveSpec ==
  /\ Spec
  /\ WF_vars(\E c \in 1..MaxStarts : RecorderStopped(c))
  /\ WF_vars(\E c \in 1..MaxStarts : IdleTimeout(c))

(***************************************************************************)
(* The read loop alone (lines 542-570): one response body, cut into reads  *)
(* by the transport.  A body is a sequence of pieces, a read delivers one  *)
(* or more whole pieces, and a JSON line is made of two pieces, so that a  *)
(* read can end in the middle of a line.                                   *)
(***************************************************************************)
DecPieces ==
  { <<OB, SComplete>>, <<RText1, CB>>, <<OB, SError>>, <<MsgE1, CB>>,
    <<NL>>, <<Junk>> }

Bodies == UNION {[1..n -> DecPieces] : n \in 0..MaxBody}

RECURSIVE Flatten(_)
Flatten(pieces) ==
  IF pieces = <<>> THEN <<>> ELSE Head(pieces) \o Flatten(Tail(pieces))

\* Bodies of one or two whole StreamEvent lines, each line one piece: every
\* status, alone or with a result, a message, or both.
EventLines ==
  { LineOf(<<st>> \o fields) :
      st \in StatusTokens,
      fields \in { <<>>, <<RText1>>, <<RText2>>, <<REmptyText>>, <<RNoText>>,
                   <<RNull>>, <<MsgE1>> } }

EventBodies == UNION {[1..n -> EventLines] : n \in 1..2}

DecInit ==
  /\ SessionInit
  /\ HomeIdle
  /\ decBody \in Bodies \cup EventBodies
  /\ decPos = 0
  /\ decOut = Outcome("", NULL)
  /\ decClean = Outcome("", NULL)

\* reader.read() delivers the next n pieces.  decClean is the outcome of the
\* same reads with the lines that do not decode taken out of each.
DecRead ==
  /\ \E n \in 1..(Len(decBody) - decPos) :
       LET chunk == Flatten(SubSeq(decBody, decPos + 1, decPos + n))
       IN /\ decOut' = ProcessChunk(chunk, decOut)
          /\ decClean' = ForLines(SelectSeq(Lines(chunk), Decodes), 1, decClean)
          /\ decPos' = decPos + n
  /\ UNCHANGED decBody
  /\ UNCHANGED sessionVars
  /\ UNCHANGED homeVars

DecNext == DecRead

DecSpec == DecInit /\ [][DecNext]_vars

(***************************************************************************)
(* The Home component (lines 775-891): the one-shot transcribeAudio, with  *)
(* the other handlers that write the state it writes.  The copy of lines   *)
(* 22-138 is the same text.                                                *)
(***************************************************************************)
MicrophoneMessage == "Error accessing microphone. Please make sure your browser has permission to use the microphone."
FailedToTranscribe == "Failed to transcribe audio"
JsonRejected == "Unexpected token < in JSON at position 0"
NullHasNoDetail == "Cannot read properties of null (reading 'detail')"
DetailD1 == "d1"
DetailEmptyList == "<[]>"
DetailObject == "<{}>"
Result1 == "{text: r1}"
Result2 == "{text: r2}"

\* errorData.detail when response.json() of a response that is not ok
\* resolves to an object: a string, nothing, null, the empty string, false,
\* zero, an empty list, an object
ErrorDetails ==
  {DetailD1, UNDEFINED, NULL, "", JFALSE, ZERO, DetailEmptyList, DetailObject}

\* what response.json() resolves to when the response is ok: an object, or
\* the value of a body that reads null, false or 0
Results == {Result1, Result2, NULL, JFALSE, ZERO}

\* String(value), the message new Error(value) gets
ToString(value) ==
  IF value = DetailEmptyList THEN ""
  ELSE IF value = DetailObject THEN "[object Object]"
  ELSE value

\* finally { setIsTranscribing(false) }, lines 888-890
Finally(busy) == FALSE

\* new Error(errorData.detail || "Failed to transcribe audio").message, line 878
ErrorOf(detail) == ToString(IF Truthy(detail) THEN detail ELSE FailedToTranscribe)

\* handleFileChange with a file selected (lines 799-806)
HandleFileChange ==
  /\ homeFile' = TRUE
  /\ homeError' = NULL
  /\ homeTouched' = (homeCall # "none")
  /\ homeLast' = HomeEvent("file", NONE)
  /\ UNCHANGED <<homeIsRecording, homeRecordedBlob, homeCalls, homeRecorders,
                 homeRecorderRef, isTranscribing, homeTranscription, homeCall>>
  /\ UNCHANGED <<sessionVars, decVars>>

\* Home.startRecording up to the await of getUserMedia (lines 809-812); its
\* button is rendered when ~isRecording (line 1089)
HomeStartRecording ==
  /\ ~homeIsRecording
  /\ Len(homeCalls) < MaxHomeStarts
  /\ homeCalls' = Append(homeCalls, "pending")
  /\ homeRecorders' = Append(homeRecorders, "none")
  /\ homeLast' = HomeEvent("start", NONE)
  /\ UNCHANGED <<homeFile, homeIsRecording, homeRecordedBlob, homeRecorderRef,
                 isTranscribing, homeTranscription, homeError, homeCall, homeTouched>>
  /\ UNCHANGED <<sessionVars, decVars>>

\* Home.startRecording, once getUserMedia has resolved (lines 813-833)
HomeDeviceGranted(c) ==
  /\ c \in 1..Len(homeCalls)
  /\ homeCalls[c] = "pending"
  /\ homeCalls' = [homeCalls EXCEPT ![c] = "granted"]
  /\ homeRecorders' = [homeRecorders EXCEPT ![c] = "recording"]
  /\ homeRecorderRef' = c
  /\ homeIsRecording' = TRUE
  /\ homeError' = NULL
  /\ homeTouched' = (homeCall # "none")
  /\ homeLast' = HomeEvent("granted", NONE)
  /\ UNCHANGED <<homeFile, homeRecordedBlob, isTranscribing, homeTranscription, homeCall>>
  /\ UNCHANGED <<sessionVars, decVars>>

\* Home.startRecording, once getUserMedia has rejected (lines 834-839)
HomeDeviceDenied(c) ==
  /\ c \in 1..Len(homeCalls)
  /\ homeCalls[c] = "pending"
  /\ homeCalls' = [homeCalls EXCEPT ![c] = "denied"]
  /\ homeError' = MicrophoneMessage
  /\ homeTouched' = (homeCall # "none")
  /\ homeLast' = HomeEvent("denied", MicrophoneMessage)
  /\ UNCHANGED <<homeFile, homeIsRecording, homeRecordedBlob, homeRecorders,
                 homeRecorderRef, isTranscribing, homeTranscription, homeCall>>
  /\ UNCHANGED <<sessionVars, decVars>>

\* Home.stopRecording (lines 843-855); its button is rendered when
\* isRecording, and the ref holds a recorder whenever isRecording is true.
\* stop() on a recorder that is inactive returns and queues nothing.
HomeStopRecording ==
  /\ homeIsRecording
  /\ homeRecorderRef # 0
  /\ homeRecorders' =
       IF homeRecorders[homeRecorderRef] = "recording"
         THEN [homeRecorders EXCEPT ![homeRecorderRef] = "stopping"]
         ELSE homeRecorders
  /\ homeIsRecording' = FALSE
  /\ homeLast' = HomeEvent("stop", NONE)
  /\ UNCHANGED <<homeFile, homeRecordedBlob, homeCalls, homeRecorderRef, isTranscribing,
                 homeTranscription, homeError, homeCall, homeTouched>>
  /\ UNCHANGED <<sessionVars, decVars>>

\* The tracks of the stream of recorder c end by themselves: the
\* MediaRecorder stops and queues the same task as stop().  No handler of the
\* component runs here.
HomeTracksEnded(c) ==
  /\ c \in 1..Len(homeRecorders)
  /\ homeRecorders[c] = "recording"
  /\ homeRecorders' = [homeRecorders EXCEPT ![c] = "stopping"]
  /\ homeLast' = HomeEvent("ended", NONE)
  /\ UNCHANGED <<homeFile, homeIsRecording, homeRecordedBlob, homeCalls, homeRecorderRef,
                 isTranscribing, homeTranscription, homeError, homeCall, homeTouched>>
  /\ UNCHANGED <<sessionVars, decVars>>

\* mediaRecorder.onstop of Home (lines 822-829), run by the task the stopped
\* recorder queued
HomeRecorderStopped(c) ==
  /\ c \in 1..Len(homeRecorders)
  /\ homeRecorders[c] = "stopping"
  /\ homeRecorders' = [homeRecorders EXCEPT ![c] = "inactive"]
  /\ homeRecordedBlob' = TRUE
  /\ homeLast' = HomeEvent("onstop", NONE)
  /\ UNCHANGED <<homeFile, homeIsRecording, homeCalls, homeRecorderRef, isTranscribing,
                 homeTranscription, homeError, homeCall, homeTouched>>
  /\ UNCHANGED <<sessionVars, decVars>>

\* One of the two Transcribe buttons is enabled (lines 1049-1052, 1116-1120).
TranscribeEnabled == (homeFile \/ homeRecordedBlob) /\ ~isTranscribing

\* transcribeAudio up to the await of fetch (lines 858-874)
TranscribeBegin ==
  /\ TranscribeEnabled
  /\ isTranscribing' = TRUE
  /\ homeError' = NULL
  /\ homeTranscription' = NULL
  /\ homeCall' = "fetch"
  /\ homeTouched' = FALSE
  /\ homeLast' = HomeEvent("begin", NONE)
  /\ UNCHANGED <<homeFile, homeIsRecording, homeRecordedBlob, homeCalls,
                 homeRecorders, homeRecorderRef>>
  /\ UNCHANGED <<sessionVars, decVars>>

\* fetch resolves (lines 871-881): the run awaits response.json() next
TranscribeResponse ==
  /\ homeCall = "fetch"
  /\ \E ok \in BOOLEAN : homeCall' = IF ok THEN "json of ok" ELSE "json of error"
  /\ homeLast' = HomeEvent("response", NONE)
  /\ UNCHANGED <<homeFile, homeIsRecording, homeRecordedBlob, homeCalls,
                 homeRecorders, homeRecorderRef,
                 isTranscribing, homeTranscription, homeError, homeTouched>>
  /\ UNCHANGED <<sessionVars, decVars>>

\* response.json() of an ok response resolves (lines 881-882), then the finally
TranscribeSuccess ==
  /\ homeCall = "json of ok"
  /\ \E result \in Results :
       /\ homeTranscription' = result
       /\ homeLast' = HomeEvent("success", result)
  /\ isTranscribing' = Finally(isTranscribing)
  /\ homeCall' = "none"
  /\ UNCHANGED <<homeFile, homeIsRecording, homeRecordedBlob, homeCalls,
                 homeRecorders, homeRecorderRef,
                 homeError, homeTouched>>
  /\ UNCHANGED <<sessionVars, decVars>>

\* The catch of lines 883-887, then the finally: fetch rejected, the response
\* was not ok (its body an object, null, or text that does not parse), or the
\* body of an ok response did not parse.
TranscribeFailure ==
  /\ \E message \in
         IF homeCall = "fetch" THEN {FetchRejected}
         ELSE IF homeCall = "json of error"
           THEN {ErrorOf(detail) : detail \in ErrorDetails}
                  \cup {NullHasNoDetail, JsonRejected}
         ELSE IF homeCall = "json of ok" THEN {JsonRejected}
         ELSE {} :
       /\ homeError' = message
       /\ homeLast' = HomeEvent("failure", message)
  /\ isTranscribing' = Finally(isTranscribing)
  /\ homeCall' = "none"
  /\ UNCHANGED <<homeFile, homeIsRecording, homeRecordedBlob, homeCalls,
                 homeRecorders, homeRecorderRef,
                 homeTranscription, homeTouched>>
  /\ UNCHANGED <<sessionVars, decVars>>

HomeNext ==
  \/ HandleFileChange
  \/ HomeStartRecording
  \/ \E c \in 1..MaxHomeStarts : HomeDeviceGranted(c)
  \/ \E c \in 1..MaxHomeStarts : HomeDeviceDenied(c)
  \/ HomeStopRecording
  \/ \E c \in 1..MaxHomeStarts : HomeTracksEnded(c)
  \/ \E c \in 1..MaxHomeStarts : HomeRecorderStopped(c)
  \/ TranscribeBegin
  \/ TranscribeResponse
  \/ TranscribeSuccess
  \/ TranscribeFailure

\* The streaming component and the decoder stay as constructed.
HomeSpec == Init /\ [][HomeNext]_vars

(***************************************************************************)
(* Properties.                                                             *)
(***************************************************************************)

\* C1: arbitration is by issue order.  When a complete event of a request
\* issued earlier in the same session is handled after a complete event of a
\* later request has been applied, the transcription text is left unchanged.
C1_StaleCompleteLeavesText ==
  [][(/\ textOwner'.seq # 0
      /\ textOwner'.seq < textOwner.seq
      /\ textOwner'.session = textOwner.session) => transcription' = transcription]_vars

\* C2: once the complete event of the final request has been applied, a complete
\* event of a request issued before it does not change the transcription text.
C2_FinalTextStays ==
  [][(/\ finalApplied # 0
      /\ textOwner'.seq # 0
      /\ textOwner'.seq < finalApplied) => transcription' = transcription]_vars

\* C3: a transport failure of a periodic request handled while the session is
\* recording does not write the error field.
C3_PeriodicFailureSwallowed ==
  [][(last'.op = "failure" /\ ~last'.final /\ isRecording) => error' = error]_vars

\* C4: a failure of the final request is surfaced: after its transport failure,
\* or after a read of its body that holds an error event, the error field of
\* the mounted component is set and is the failure's message.
C4_FinalFailureSurfaced ==
  mounted =>
    /\ (last.op = "failure" /\ last.final) => (Truthy(error) /\ error = last.msg)
    /\ (last.op = "read" /\ last.final /\ last.msg # NONE)
         => (Truthy(error) /\ error = last.msg)

\* C5: a read of the body of a periodic request never changes the error field,
\* whatever events it holds.
C5_PeriodicErrorEventIgnored ==
  [][(last'.op = "read" /\ ~last'.final) => error' = error]_vars

\* C6: a timer that was armed when stopRecording ran issues no request
\* afterwards.
C6_NoTickAfterStop == last.op = "tick" => last.msg # "issued after stop"

\* C7: once stopRecording has run in a session that records, the status
\* becomes idle, whether or not the final request ever responds, unless the
\* component is unmounted first or the behaviour has used its MaxSteps handler
\* runs.
C7_EventuallyIdle ==
  (mounted /\ last.op = "stop") ~> (status = "idle" \/ ~mounted \/ steps = MaxSteps)

\* C8: the status is not idle while a final request is still awaiting its
\* response or the end of its body.
C8_IdleAwaitsFinal == (\E r \in requests : r.final) => status # "idle"

\* C9: when the whole body has been read, the events applied are those applied
\* when the body arrives as one single read.
C9_SplitIndependent ==
  decPos = Len(decBody) =>
    decOut.applied = ProcessChunk(Flatten(decBody), Outcome("", NULL)).applied

\* C10: a line that does not decode is skipped without effect: the text, the
\* error field and the events applied are those of the same reads without the
\* lines that do not decode.
C10_MalformedLineSkipped == decOut = decClean

\* C10 happens: a malformed line, then a complete event in the same read, and
\* the event was applied.
C10_Witness ==
  /\ decBody = << <<Junk>>, <<NL>>, <<OB, SComplete>>, <<RText1, CB>> >>
  /\ decPos = 4
  /\ decOut.applied = << [status |-> "complete", value |-> "t1"] >>
  /\ decOut.transcription = "t1"

\* C11: when the body of the final request ends and no complete or error event
\* of that request has reached the status dispatch, the error field is set.
C11_EndOfStreamIsError ==
  (last.op = "done" /\ last.final /\ last.msg = "no terminal") => error # NULL

\* C12: when getUserMedia rejects, the status is idle, isRecording is false, no
\* timer is armed, no recorder records, the rejected call has issued no request
\* and the error field holds the failure message.
C12_DeniedStaysIdle ==
  last.op = "denied" =>
    /\ status = "idle"
    /\ ~isRecording
    /\ intervals = {}
    /\ \A c \in 1..Len(recorders) : recorders[c].state # "recording"
    /\ \A r \in requests : calls[r.session].device # "denied"
    /\ error = DeviceFailed

\* C13: the payload of a request is the buffer as it was when the request was
\* issued: a request that appears carries exactly the fragments held at that
\* moment, in the order they were pushed and each once, and no later step
\* (a push, a reset of the buffer) changes the payload of a request in flight.
C13_PayloadIsSnapshot ==
  [][\A r \in requests' :
       /\ \A q \in requests : q.seq = r.seq => q.payload = r.payload
       /\ r.seq > issued.periodic + issued.final => r.payload = Blob(audioChunksRef')
       /\ \A i \in 1..(Len(r.payload.parts) - 1) :
            r.payload.parts[i] < r.payload.parts[i + 1]]_vars

\* C13 happens: a fragment was pushed after a request was issued, and the
\* request in flight still carries the one fragment held when it was issued.
C13_Witness ==
  /\ audioChunksRef = <<1, 2>>
  /\ \E r \in requests : r.payload = Blob(<<1>>)

\* C14: when the recorder's stop event has been handled, one final request has
\* just been issued, no timer is armed, and the request carries every fragment
\* of the buffer, the flushed one included.
C14_StopIssuesFinal ==
  last.op = "onstop" =>
    /\ last.msg = "issued"
    /\ intervals = {}
    /\ \E r \in requests :
         /\ r.final
         /\ r.seq = issued.periodic + issued.final
         /\ r.payload = Blob(audioChunksRef)

\* C15: when stopRecording has stopped the recorder, no stream obtained from
\* getUserMedia has a live track.
C15_StopReleasesDevice ==
  (last.op = "stop" /\ last.msg = "stopped") =>
    \A c \in 1..Len(recorders) : recorders[c].tracks # "live"

\* C16: a read or a failure of a request issued before the latest
\* startRecording changes neither the transcription text nor the error field.
C16_OldRequestsLeaveOutcome ==
  [][\A r \in requests :
       (r.seq <= issuedAtStart /\ (Read(r) \/ TransportFailure(r)))
         => (transcription' = transcription /\ error' = error)]_vars

\* C17: the status becomes recording only from idle and only when getUserMedia
\* resolves, and it leaves recording only for processing, by stopRecording.
C17_StatusLifecycle ==
  [][/\ (status' = "recording" /\ status # "recording")
          => (status = "idle" /\ last'.op = "granted")
     /\ (status = "recording" /\ status' # "recording")
          => (status' = "processing" /\ last'.op = "stop")]_vars

\* C18: when getUserMedia has resolved, the status is recording, the buffer is
\* empty, the transcription text is empty, the error field is null and the
\* timer held in processingIntervalRef is armed.
C18_StartedClean ==
  last.op = "granted" =>
    /\ status = "recording"
    /\ isRecording
    /\ audioChunksRef = <<>>
    /\ transcription = ""
    /\ error = NULL
    /\ processingIntervalRef # 0
    /\ processingIntervalRef \in intervals

\* C19: a timer callback that finds the buffer empty changes nothing; one that
\* finds fragments issues exactly one request, periodic, whose payload is the
\* buffer at that moment, and leaves the buffer alone.
C19_TickIssuesIffNonEmpty ==
  [][last'.op = "tick" =>
       IF audioChunksRef = <<>>
         THEN UNCHANGED codeVars
         ELSE /\ audioChunksRef' = audioChunksRef
              /\ requests \subseteq requests'
              /\ Cardinality(requests') = Cardinality(requests) + 1
              /\ \A r \in requests' \ requests :
                   ~r.final /\ r.payload = Blob(audioChunksRef)]_vars

\* C19 happens: a timer callback has just issued a request that carries the
\* two fragments held.
C19_Witness ==
  /\ last.op = "tick"
  /\ last.msg = "issued"
  /\ \E r \in requests :
       /\ r.seq = issued.periodic + issued.final
       /\ ~r.final
       /\ r.payload = Blob(<<1, 2>>)

\* C20: while requests are awaited, however many and of whichever session,
\* the callback of an armed timer that finds fragments runs and issues one
\* more request, and the dataavailable handler of a recorder that records runs
\* and pushes a fragment.
C20_NeverBlocked ==
  requests # {} =>
    /\ \A c \in intervals :
         ~NothingToSend(audioChunksRef)
           => ENABLED (IntervalCallback(c) /\ issued'.periodic = issued.periodic + 1)
    /\ \A c \in 1..Len(recorders) :
         recorders[c].state = "recording"
           => ENABLED (OnDataAvailable(c) /\ fragments' = fragments + 1)

\* C20 happens: while recording, two periodic requests of the one session are
\* awaited at the same time, the second issued while the first had no response.
C20_Witness ==
  /\ isRecording
  /\ last.op = "tick"
  /\ last.msg = "issued"
  /\ \E r, q \in requests :
       /\ r.seq < q.seq
       /\ r.session = q.session
       /\ ~r.final /\ ~q.final
       /\ r.phase = "fetch" /\ q.phase = "fetch"

IsPrefix(a, b) == Len(a) <= Len(b) /\ SubSeq(b, 1, Len(a)) = a

\* C21: while the session records, a step only appends to the buffer; and once
\* the recorder held in the ref has handled its stop event, the buffer stays as
\* it is until startRecording runs again.
C21_BufferAppendOnly ==
  [][/\ (isRecording /\ isRecording') => IsPrefix(audioChunksRef, audioChunksRef')
     /\ (/\ mediaRecorderRef # 0
         /\ recorders[mediaRecorderRef].state = "inactive"
         /\ last'.op # "start") => audioChunksRef' = audioChunksRef]_vars

\* C22: once a complete or an error event of a request has reached the status
\* dispatch, a later read of the same request changes neither the
\* transcription text nor the error field.
C22_TerminalEndsRequest ==
  [][\A r \in requests :
       (r.terminal /\ Read(r)) => (transcription' = transcription /\ error' = error)]_vars

\* C23: the processing events of a read have no effect: the text and the error
\* field after the read are those the same read gives with its processing
\* events taken out.
C23_ProcessingIsInformational ==
  [][LET lines == Lines(Flatten(SubSeq(decBody, decPos + 1, decPos')))
         others == SelectSeq(lines, LAMBDA l :
                     ~(Decodes(l) /\ JSONParse(l).status = "processing"))
         ref == ForLines(others, 1, decOut)
     IN /\ decOut'.transcription = ref.transcription
        /\ decOut'.error = ref.error]_vars

\* C23 happens: a processing event that carries a result was read after a
\* complete event, and the text is still that of the complete event.
C23_Witness ==
  /\ decBody = << LineOf(<<SComplete, RText1>>), LineOf(<<SProcessing, RText2>>) >>
  /\ decPos = 2
  /\ decOut.transcription = "t1"

\* C24: the transcription text changes only in startRecording and in a read
\* that applies a complete event carrying a result.
C24_TextChangesByResultOnly ==
  [][transcription' # transcription =>
       (last'.op = "start" \/ (last'.op = "read" /\ last'.wrote))]_vars

\* C24 happens: an error event was read while the text was set, and the text
\* is still there.
C24_Witness ==
  /\ mounted
  /\ last.op = "read"
  /\ last.msg = "e1"
  /\ ~last.wrote
  /\ transcription = "t1"

\* C25: once the component was unmounted while isRecording was true, no timer
\* is armed, no recorder records, no stream has a live track and no timer
\* callback issues a request.
C25_UnmountCleansUp ==
  (~mounted /\ isRecording) =>
    /\ intervals = {}
    /\ \A c \in 1..Len(recorders) :
         recorders[c].state # "recording" /\ recorders[c].tracks # "live"
    /\ last.op = "tick" => last.msg = "returned"

\* C26: at most one timer is armed and at most one recorder records.
C26_OneTriggerOneFeed ==
  /\ Cardinality(intervals) <= 1
  /\ Cardinality({c \in 1..Len(recorders) : recorders[c].state = "recording"}) <= 1

\* C27: whenever isRecording is true, the status is recording.
C27_FlagAgreesWithStatus == (mounted /\ isRecording) => status = "recording"

\* C28: a step other than startRecording leaves a set error field set; a
\* transport failure and a read holding an error event leave their own message
\* in it.
C28_ErrorClearedByStartOnly ==
  [][/\ (Truthy(error) /\ last'.op # "start") => Truthy(error')
     /\ (mounted /\ last'.op = "failure") => error' = last'.msg
     /\ (mounted /\ last'.op = "read" /\ last'.msg # NONE) => error' = last'.msg]_vars

\* A read has applied a complete event, it held no error event, and the error
\* field set before is still set.
C28_Witness ==
  /\ mounted
  /\ last.op = "read"
  /\ last.wrote
  /\ last.msg = NONE
  /\ error = HttpNotOk
  /\ transcription = "t1"

\* C29: stopRecording called while the ref holds no recorder, or a recorder
\* that does not record, changes nothing: no state, no ref, no timer, no
\* request.
C29_StopNoOpWhenInactive ==
  [][(/\ last'.op = "stop"
      /\ ~(mediaRecorderRef # 0 /\ recorders[mediaRecorderRef].state = "recording"))
        => UNCHANGED codeVars]_vars

\* C29 happens: stopRecording was called a second time after it had stopped
\* the recorder, and returned at its test: the status is still processing and
\* the one timer of the first call is the only one pending.
C29_Witness ==
  /\ last.op = "stop"
  /\ last.msg = "returned"
  /\ ~isRecording
  /\ status = "processing"
  /\ recorders[mediaRecorderRef].tracks = "stopped"
  /\ idleTimers = {mediaRecorderRef}

\* C30: a read of one complete event leaves the text unchanged when the event
\* has no result (absent or null), and otherwise sets it to the text of the
\* result, or to the empty string when the result has no text or an empty one.
C30_CompleteNeedsResult ==
  [][LET lines == Lines(Flatten(SubSeq(decBody, decPos + 1, decPos')))
         data == JSONParse(lines[1])
     IN (Len(lines) = 1 /\ Decodes(lines[1]) /\ data.status = "complete") =>
          decOut'.transcription =
            IF data.result \in {UNDEFINED, NULL} THEN decOut.transcription
            ELSE IF data.text \in {UNDEFINED, ""} THEN "" ELSE data.text]_vars

\* C30 happens: a complete event whose result has no text was read after one
\* that set the text, and the text is empty.
C30_Witness ==
  /\ decBody = << LineOf(<<SComplete, RText1>>), LineOf(<<SComplete, RNoText>>) >>
  /\ decPos = 2
  /\ Len(decOut.applied) = 2
  /\ decOut.transcription = ""

\* C31: whenever a transcribeAudio has ended in success, isTranscribing is
\* false, the result is the body of the response and the error is empty.
C31_SuccessLeavesErrorEmpty ==
  homeLast.op = "success" =>
    /\ ~isTranscribing
    /\ homeTranscription = homeLast.value
    /\ homeError = NULL

====
